---- MODULE Spec2Model ----
(***************************************************************************)
(* A model of the DALI master driver of src/dali.go: the forward-frame     *)
(* encoder (create_dali_frame), the command issuer (Issue_dali_request),   *)
(* the backward-frame reader (Wait_dali_response), the response            *)
(* classification of the scanner and of the commissioner, and the          *)
(* commissioning run (Initialize_dali) against a simulated bus.            *)
(*                                                                         *)
(* The source spells the issuer and the commissioner with a Greek capital  *)
(* iota; the model writes them with a Latin I.                             *)
(***************************************************************************)
EXTENDS Integers, Sequences, FiniteSets, TLC

(***************************************************************************)
(* Bounds of the model.  The long-address space of the program is 24 bits  *)
(* wide (0xFFFFFF); the model keeps the algorithm and narrows the space to *)
(* AddrBits bits.  MaxDevices bounds the number of devices on the          *)
(* simulated bus.                                                          *)
(***************************************************************************)
AddrBits == 4

MaxDevices == 2

(***************************************************************************)
(* Program constants (src/dali.go:43-50 and the literals of the            *)
(* commissioner and the scanner).                                          *)
(***************************************************************************)
BROADCAST_C == 255

ON_C == 5

OFF_C == 0

QUERY_STATUS == 144

RESET == 32

INITIALISE == 165

RANDOMISE == 167

SEARCHADDR == 177

COMPARE == 169

PROGRAM_SHORT == 183

WITHDRAW == 171

TERMINATE == 161

FrameLen == 5

ResponseLen == 3

MaxShort == 64

Ceiling == 2^AddrBits - 1

Byte == 0..255

(***************************************************************************)
(* Bit operations on bytes, as Go computes them on uint8.                  *)
(***************************************************************************)
BitOf(n, i) == (n \div (2^i)) % 2

And8(a, b) ==
  LET f[i \in 0..8] == IF i = 8 THEN 0
                       ELSE 2^i * (BitOf(a, i) * BitOf(b, i)) + f[i+1]
  IN f[0]

Or8(a, b) ==
  LET f[i \in 0..8] == IF i = 8 THEN 0
                       ELSE 2^i * (IF BitOf(a, i) + BitOf(b, i) > 0 THEN 1 ELSE 0) + f[i+1]
  IN f[0]

Xor8(a, b) ==
  LET f[i \in 0..8] == IF i = 8 THEN 0
                       ELSE 2^i * ((BitOf(a, i) + BitOf(b, i)) % 2) + f[i+1]
  IN f[0]

AndNot8(a, b) ==
  LET f[i \in 0..8] == IF i = 8 THEN 0
                       ELSE 2^i * (BitOf(a, i) * (1 - BitOf(b, i))) + f[i+1]
  IN f[0]

\* 1 << pos, truncated to a byte when it is stored into a uint8
Shl1(pos) == (2^pos) % 256

(***************************************************************************)
(* is_bit_set (src/dali.go:120-123)                                        *)
(***************************************************************************)
is_bit_set(n, pos) == And8(n, Shl1(pos)) > 0

(***************************************************************************)
(* create_dali_frame (src/dali.go:132-174).  The frame is a function from  *)
(* the byte index 0..4 to a byte.  FrameState is the triple the loops      *)
(* update: msg, byte_frame and msg_cn.                                     *)
(***************************************************************************)
FrameBody(st, dali_convert, i) ==
  LET st1 == IF st.msg_cn < 0
             THEN [st EXCEPT !.msg_cn = 7, !.byte_frame = st.byte_frame + 1]
             ELSE st
      bf  == st1.byte_frame
      cn  == st1.msg_cn
  IN IF is_bit_set(dali_convert, i)
     THEN [st1 EXCEPT !.msg = [@ EXCEPT ![bf] = Or8(AndNot8(@, Shl1(cn)), Shl1(cn - 1))],
                      !.msg_cn = cn - 2]
     ELSE [st1 EXCEPT !.msg = [@ EXCEPT ![bf] = AndNot8(Or8(@, Shl1(cn)), Shl1(cn - 1))],
                      !.msg_cn = cn - 2]

\* the inner loop  for i := 7; i < 0; i++
RECURSIVE FrameBitLoop(_, _, _)
FrameBitLoop(st, dali_convert, i) ==
  IF i < 0 THEN FrameBitLoop(FrameBody(st, dali_convert, i), dali_convert, i + 1)
  ELSE st

\* create_dali_frame with the start symbol put one bit too high (0x80 for 0x40)
create_dali_frame_m(dali_address, dali_command) ==
  LET msg0 == [k \in 0..(FrameLen - 1) |-> 0]
      st0  == [msg |-> [msg0 EXCEPT ![0] = Or8(@, 128)], byte_frame |-> 0, msg_cn |-> 5]
      st1  == FrameBitLoop(st0, dali_address, 7)
      st2  == FrameBitLoop(st1, dali_command, 7)
  IN st2.msg

create_dali_frame(dali_address, dali_command) ==
  LET msg0 == [k \in 0..(FrameLen - 1) |-> 0]
      st0  == [msg |-> [msg0 EXCEPT ![0] = Or8(@, 64)], byte_frame |-> 0, msg_cn |-> 5]
      st1  == FrameBitLoop(st0, dali_address, 7)
      st2  == FrameBitLoop(st1, dali_command, 7)
  IN st2.msg

(***************************************************************************)
(* split_address (src/dali.go:284-289): the three low bytes of the input.  *)
(***************************************************************************)
split_address(input) ==
  << (input \div 65536) % 256, (input \div 256) % 256, input % 256 >>

\* 1 + (short_add << 1), computed on uint8 (src/dali.go:374, 378, 380)
AddressToken(short) == (1 + ((short * 2) % 256)) % 256

(***************************************************************************)
(* The response classification.  ScanResponded is the condition of the     *)
(* scanner (src/dali.go:255-257), CommResponded the condition of the       *)
(* commissioner (src/dali.go:349).  A response buffer is a function from   *)
(* the byte index 0..2 to a byte.                                          *)
(***************************************************************************)
ScanResponded(single_response) ==
  \/ Xor8(single_response[0], 255) # 0
  \/ Xor8(single_response[1], 255) # 0
  \/ Xor8(single_response[2], 255) # 0

\* the commissioner's condition with the third byte left out
CommResponded_m(r) ==
  Xor8(r[0], 255) # 0 \/ Xor8(r[1], 255) # 0

CommResponded(r) ==
  Xor8(r[0], 255) # 0 \/ Xor8(r[1], 255) # 0 \/ Xor8(r[2], 255) # 0

(***************************************************************************)
(* Issue_dali_request (src/dali.go:185-201) for one outcome w of           *)
(* port.Write, w = [n |-> bytes written, err |-> "nil" or an error].       *)
(* log.Fatal ends the process: exit is TRUE and nothing is returned.       *)
(* Otherwise the function returns nil, whatever n is.  wire is what the    *)
(* transport took of the frame.                                            *)
(***************************************************************************)
Issue_dali_request(dali_addr, dali_cmd, w) ==
  LET msg == create_dali_frame(dali_addr, dali_cmd)
  IN IF w.err # "nil"
     THEN [exit |-> TRUE,  err |-> w.err, wire |-> [k \in 0..(w.n - 1) |-> msg[k]]]
     ELSE [exit |-> FALSE, err |-> "nil", wire |-> [k \in 0..(w.n - 1) |-> msg[k]]]

(***************************************************************************)
(* Wait_dali_response (src/dali.go:209-223) for one outcome r of           *)
(* port.Read, r = [n |-> bytes read, data |-> bytes delivered, err].       *)
(* The buffer is made zeroed and the read fills its first n bytes.  A read *)
(* error ends the process (log.Fatal); otherwise the buffer is returned    *)
(* with a nil error.                                                       *)
(***************************************************************************)
\* Wait_dali_response with the buffer made idle (0xFF) instead of zeroed
Wait_dali_response_m(r) ==
  [exit     |-> r.err # "nil",
   response |-> [k \in 0..(ResponseLen - 1) |-> IF k < r.n THEN r.data[k] ELSE 255],
   err      |-> "nil"]

Wait_dali_response(r) ==
  [exit     |-> r.err # "nil",
   response |-> [k \in 0..(ResponseLen - 1) |-> IF k < r.n THEN r.data[k] ELSE 0],
   err      |-> "nil"]

VARIABLES
  pc,             \* position of the running operation
  idx,            \* position inside a straight-line run of commands
  low_longadd, high_longadd, longadd, short_add,   \* locals of Initialize_dali
  err,            \* the err local of the running operation
  rsp,            \* the last buffer Wait_dali_response returned
  faulty,         \* whether the transport may fail a read or a write
  exitCause,      \* "none", or what made log.Fatal end the process
  devs,           \* simulated bus: long addresses of the unbound devices
  search,         \* simulated bus: search-address bytes received so far
  withdrawn,      \* simulated bus: devices withdrawn from the search
  shortOf,        \* simulated bus: address token each device was programmed with
  sent,           \* events of the current phase: frames, delays, reads
  iters,          \* compare iterations of the current discovery pass
  passes,         \* discovery passes completed
  progLog,        \* program-short-address commands: token and receivers
  dali_address, dali_command,   \* arguments of a stand-alone call
  message,        \* the frame create_dali_frame returned
  wr,             \* outcome of port.Write in a stand-alone call
  ret,            \* what a stand-alone call returned
  scan_class, comm_class,       \* classification by the scanner / the commissioner
  device_short_add, short_addresses, response,   \* locals of Scan_addresses
  bound,          \* simulated bus: address tokens of the devices bound beforehand
  anyAnswer,      \* whether a read may return any buffer, whatever the bus holds
  rd              \* outcome of port.Read in a stand-alone call

vars == << pc, idx, low_longadd, high_longadd, longadd, short_add, err, rsp,
           faulty, exitCause, devs, search, withdrawn, shortOf, sent, iters,
           passes, progLog, dali_address, dali_command, message, wr, ret,
           scan_class, comm_class, device_short_add, short_addresses, response,
           bound, anyAnswer, rd >>

commVars == << low_longadd, high_longadd, longadd, short_add >>

busVars == << search, withdrawn, shortOf >>

callVars == << dali_address, dali_command, message, wr, ret, scan_class, comm_class >>

scanVars == << device_short_add, short_addresses, response >>

envVars == << bound, anyAnswer, rd >>

NoShort == 0 - 1

IdleBuffer == [k \in 0..(ResponseLen - 1) |-> 255]

ZeroBuffer == [k \in 0..(ResponseLen - 1) |-> 0]

ZeroFrame == [k \in 0..(FrameLen - 1) |-> 0]

\* bytes with exactly one bit pulled low, the idle byte and the all-low byte
ByteSamples == {255, 0} \cup {255 - 2^k : k \in 0..7}

\* every combination of the sample bytes, and every byte value at each
\* position next to idle or all-low bytes
BufferSamples ==
  {[k \in 0..(ResponseLen - 1) |-> b[k + 1]] :
      b \in ByteSamples \X ByteSamples \X ByteSamples}
    \cup {[k \in 0..(ResponseLen - 1) |-> IF k = p THEN v ELSE o] :
             p \in 0..(ResponseLen - 1), v \in Byte, o \in {255, 0}}

\* what a device that answers can put on the line: at least one bit low
AnswerBuffers ==
  { [k \in 0..(ResponseLen - 1) |-> 0],
    [k \in 0..(ResponseLen - 1) |-> IF k = 2 THEN 254 ELSE 255],
    [k \in 0..(ResponseLen - 1) |-> IF k = 1 THEN 127 ELSE 255] }

OkWrite == [n |-> FrameLen, err |-> "nil"]

FailedWrite == [n |-> 0, err |-> "EIO"]

LongAddresses == 0..Ceiling

RECURSIVE DeviceSets(_)
DeviceSets(k) ==
  IF k = 0 THEN {{}}
  ELSE LET P == DeviceSets(k - 1)
       IN P \cup {s \cup {a} : s \in P, a \in LongAddresses}

(***************************************************************************)
(* The simulated bus of the commissioning run.  It is driven by the        *)
(* (address, command) pairs handed to Issue_dali_request: three            *)
(* consecutive search-address commands carry the high, middle and low byte *)
(* of the search address; compare is answered when some device that is     *)
(* not withdrawn has a long address <= the search address; program and     *)
(* withdraw act on the devices whose long address equals the search        *)
(* address.                                                                *)
(***************************************************************************)
SearchAddress(s) ==
  IF Len(s) = 3 THEN s[1] * 65536 + s[2] * 256 + s[3] ELSE 0 - 1

BusSelected(s) == {d \in devs : d = SearchAddress(s)}

BusSearch(s, a, c) ==
  IF a = SEARCHADDR THEN (IF Len(s) = 3 THEN <<c>> ELSE Append(s, c)) ELSE s

BusShortOf(a, c) ==
  IF a = PROGRAM_SHORT
  THEN [d \in devs |-> IF d \in BusSelected(search) THEN c ELSE shortOf[d]]
  ELSE shortOf

BusWithdrawn(a, c) ==
  IF a = WITHDRAW THEN withdrawn \cup BusSelected(search) ELSE withdrawn

BusCompare ==
  \E d \in devs \ withdrawn : Len(search) = 3 /\ d <= SearchAddress(search)

BusAnswers == IF BusCompare THEN AnswerBuffers ELSE {IdleBuffer}

Remaining == devs \ withdrawn

(***************************************************************************)
(* Events recorded in sent.                                                *)
(***************************************************************************)
Frame(a, c) == <<"frame", a, c>>

Sleep == <<"sleep", 0, 0>>

ReadEv == <<"read", 0, 0>>

\* the last frame written
LastFrame == LET F == {i \in 1..Len(sent) : sent[i][1] = "frame"}
             IN IF F = {} THEN <<"none", 0, 0>>
                ELSE sent[CHOOSE i \in F : \A j \in F : j <= i]

WriteResults == IF faulty THEN {OkWrite, FailedWrite} ELSE {OkWrite}

\* the two buffers an unconstrained line is read as: idle, or pulled low
AnyAnswers == {IdleBuffer, ZeroBuffer}

ReadResults ==
  {[n |-> ResponseLen, data |-> b, err |-> "nil"] :
      b \in (IF anyAnswer THEN AnyAnswers ELSE BusAnswers)}
    \cup (IF faulty THEN {[n |-> 0, data |-> ZeroBuffer, err |-> "timeout"]} ELSE {})

\* the long address a program-short-address command reaches on the simulated
\* bus; with unconstrained reads no bus is simulated and none is recorded
ProgrammedAddress == IF anyAnswer THEN NoShort ELSE SearchAddress(search)

(***************************************************************************)
(* One call of Issue_dali_request from the commissioner, followed by the   *)
(* time.Sleep the source has after it when sleep is TRUE.  A frame written *)
(* whole reaches the bus.  Control continues at npc / nidx.                *)
(***************************************************************************)
IssueThen(a, c, sleep, npc, nidx) ==
  \E w \in WriteResults :
    LET r == Issue_dali_request(a, c, w)
    IN IF r.exit
       THEN /\ pc' = "exited"
            /\ exitCause' = "write"
            /\ UNCHANGED << idx, err, busVars, sent, progLog >>
       ELSE /\ pc' = npc
            /\ idx' = nidx
            /\ err' = r.err
            /\ search' = BusSearch(search, a, c)
            /\ shortOf' = BusShortOf(a, c)
            /\ withdrawn' = BusWithdrawn(a, c)
            /\ progLog' = IF a = PROGRAM_SHORT
                          THEN Append(progLog, [token |-> c, addr |-> ProgrammedAddress,
                                                to |-> BusSelected(search)])
                          ELSE progLog
            /\ sent' = sent \o <<Frame(a, c)>> \o (IF sleep THEN <<Sleep>> ELSE <<>>)
            /\ UNCHANGED exitCause

(***************************************************************************)
(* Initialize_dali (src/dali.go:297-399)                                   *)
(***************************************************************************)
\* lines 307-324: reset twice, broadcast off, initialise twice, randomise twice
PrologueFrames ==
  << <<BROADCAST_C, RESET>>, <<BROADCAST_C, RESET>>, <<BROADCAST_C, OFF_C>>,
     <<INITIALISE, 0>>, <<INITIALISE, 0>>, <<RANDOMISE, 0>>, <<RANDOMISE, 0>> >>

Prologue ==
  /\ pc = "prologue"
  /\ IssueThen(PrologueFrames[idx][1], PrologueFrames[idx][2], TRUE,
               IF idx = Len(PrologueFrames) THEN "outer" ELSE "prologue",
               IF idx = Len(PrologueFrames) THEN 1 ELSE idx + 1)
  /\ UNCHANGED << commVars, rsp, faulty, devs, iters, passes, callVars, scanVars, envVars >>

\* OuterLoop with the guard off by one (ceiling - 1 for ceiling - 2)
OuterLoop_m ==
  /\ pc = "outer"
  /\ IF longadd <= Ceiling - 1 /\ short_add <= MaxShort
     THEN /\ pc' = "inner"
          /\ sent' = <<>>
          /\ iters' = 0
     ELSE /\ pc' = "terminate"
          /\ UNCHANGED << sent, iters >>
  /\ UNCHANGED << idx, commVars, err, rsp, faulty, exitCause, devs, busVars,
                  passes, progLog, callVars, scanVars, envVars >>

\* line 329: the test of the discovery loop
OuterLoop ==
  /\ pc = "outer"
  /\ IF longadd <= Ceiling - 2 /\ short_add <= MaxShort
     THEN /\ pc' = "inner"
          /\ sent' = <<>>
          /\ iters' = 0
     ELSE /\ pc' = "terminate"
          /\ UNCHANGED << sent, iters >>
  /\ UNCHANGED << idx, commVars, err, rsp, faulty, exitCause, devs, busVars,
                  passes, progLog, callVars, scanVars, envVars >>

\* line 332: the test of the inner search loop
InnerLoop ==
  /\ pc = "inner"
  /\ IF high_longadd - low_longadd > 1
     THEN pc' = "search" /\ idx' = 1
     ELSE pc' = "sentinel" /\ idx' = 1
  /\ UNCHANGED << commVars, err, rsp, faulty, exitCause, devs, busVars, sent,
                  iters, passes, progLog, callVars, scanVars, envVars >>

\* lines 334-340: the three bytes of the candidate
SetSearchAddress ==
  /\ pc = "search"
  /\ IssueThen(SEARCHADDR, split_address(longadd)[idx], TRUE,
               IF idx = 3 THEN "compare" ELSE "search",
               IF idx = 3 THEN 1 ELSE idx + 1)
  /\ UNCHANGED << commVars, rsp, faulty, devs, iters, passes, callVars, scanVars, envVars >>

\* line 341: compare, with no delay after it
Compare ==
  /\ pc = "compare"
  /\ IssueThen(COMPARE, 0, FALSE, "wait", 1)
  /\ UNCHANGED << commVars, rsp, faulty, devs, iters, passes, callVars, scanVars, envVars >>

\* lines 343-346: the read; rsp_err is always nil when the call returns
WaitResponse ==
  /\ pc = "wait"
  /\ \E r \in ReadResults :
       LET w == Wait_dali_response(r)
       IN IF w.exit
          THEN /\ pc' = "exited"
               /\ exitCause' = "read"
               /\ UNCHANGED << rsp, sent >>
          ELSE /\ pc' = IF w.err # "nil" THEN "returned" ELSE "classify"
               /\ rsp' = w.response
               /\ sent' = Append(sent, ReadEv)
               /\ UNCHANGED exitCause
  /\ UNCHANGED << idx, commVars, err, faulty, devs, busVars, iters, passes,
                  progLog, callVars, scanVars, envVars >>

\* Classify with the re-centring of line 360 left out
Classify_m ==
  /\ pc = "classify"
  /\ IF CommResponded(rsp)
     THEN low_longadd' = longadd /\ UNCHANGED high_longadd
     ELSE high_longadd' = longadd /\ UNCHANGED low_longadd
  /\ longadd' = longadd
  /\ iters' = iters + 1
  /\ pc' = "inner"
  /\ UNCHANGED << idx, short_add, err, rsp, faulty, exitCause, devs, busVars,
                  sent, passes, progLog, callVars, scanVars, envVars >>

\* lines 349-360: move one bound to the candidate and re-centre
Classify ==
  /\ pc = "classify"
  /\ IF CommResponded(rsp)
     THEN low_longadd' = longadd /\ UNCHANGED high_longadd
     ELSE high_longadd' = longadd /\ UNCHANGED low_longadd
  /\ longadd' = (low_longadd' + high_longadd') \div 2
  /\ iters' = iters + 1
  /\ pc' = "inner"
  /\ UNCHANGED << idx, short_add, err, rsp, faulty, exitCause, devs, busVars,
                  sent, passes, progLog, callVars, scanVars, envVars >>

\* line 364: the sentinel test after the inner loop
Sentinel ==
  /\ pc = "sentinel"
  /\ IF high_longadd # Ceiling
     THEN pc' = "assign" /\ UNCHANGED passes
     ELSE pc' = "outer" /\ passes' = passes + 1
  /\ UNCHANGED << idx, commVars, err, rsp, faulty, exitCause, devs, busVars,
                  sent, iters, progLog, callVars, scanVars, envVars >>

\* AssignFrames re-sending the candidate itself instead of candidate + 1
AssignFrames_m ==
  << <<SEARCHADDR, split_address(longadd)[1]>>,
     <<SEARCHADDR, split_address(longadd)[2]>>,
     <<SEARCHADDR, split_address(longadd)[3]>>,
     <<PROGRAM_SHORT, AddressToken(short_add)>>,
     <<WITHDRAW, 0>>,
     <<AddressToken(short_add), ON_C>>,
     <<AddressToken(short_add), OFF_C>> >>

\* lines 367-381: re-send the search address, program, withdraw, on, off
AssignFrames ==
  << <<SEARCHADDR, split_address(longadd + 1)[1]>>,
     <<SEARCHADDR, split_address(longadd + 1)[2]>>,
     <<SEARCHADDR, split_address(longadd + 1)[3]>>,
     <<PROGRAM_SHORT, AddressToken(short_add)>>,
     <<WITHDRAW, 0>>,
     <<AddressToken(short_add), ON_C>>,
     <<AddressToken(short_add), OFF_C>> >>

Assign ==
  /\ pc = "assign"
  /\ IssueThen(AssignFrames[idx][1], AssignFrames[idx][2], TRUE,
               IF idx = Len(AssignFrames) THEN "increment" ELSE "assign",
               IF idx = Len(AssignFrames) THEN 1 ELSE idx + 1)
  /\ UNCHANGED << commVars, rsp, faulty, devs, iters, passes, callVars, scanVars, envVars >>

\* Increment re-opening the whole window (low back to 0)
Increment_m ==
  /\ pc = "increment"
  /\ short_add' = (short_add + 1) % 256
  /\ high_longadd' = Ceiling
  /\ low_longadd' = 0
  /\ longadd' = (0 + Ceiling) \div 2
  /\ passes' = passes + 1
  /\ pc' = "outer"
  /\ UNCHANGED << idx, err, rsp, faulty, exitCause, devs, busVars,
                  sent, iters, progLog, callVars, scanVars, envVars >>

\* lines 382-387: count the device, reload high, re-centre
Increment ==
  /\ pc = "increment"
  /\ short_add' = (short_add + 1) % 256
  /\ high_longadd' = Ceiling
  /\ longadd' = (low_longadd + Ceiling) \div 2
  /\ passes' = passes + 1
  /\ pc' = "outer"
  /\ UNCHANGED << idx, low_longadd, err, rsp, faulty, exitCause, devs, busVars,
                  sent, iters, progLog, callVars, scanVars, envVars >>

\* lines 393-394
Terminate ==
  /\ pc = "terminate"
  /\ IssueThen(TERMINATE, 0, TRUE, "broadcast_on", 1)
  /\ UNCHANGED << commVars, rsp, faulty, devs, iters, passes, callVars, scanVars, envVars >>

\* lines 395-398: broadcast on, then return err
BroadcastOn ==
  /\ pc = "broadcast_on"
  /\ IssueThen(BROADCAST_C, ON_C, TRUE, "done", 1)
  /\ UNCHANGED << commVars, rsp, faulty, devs, iters, passes, callVars, scanVars, envVars >>

\* Scan_addresses not running: its locals as declared at lines 236-239
ScanIdle ==
  /\ device_short_add = 0
  /\ short_addresses = 0
  /\ response = <<0>>

NoRead == [n |-> ResponseLen, data |-> IdleBuffer, err |-> "nil"]

CallIdle ==
  /\ dali_address = 0
  /\ dali_command = 0
  /\ message = ZeroFrame
  /\ wr = OkWrite
  /\ ret = "none"
  /\ scan_class = "none"
  /\ comm_class = "none"

Init ==
  /\ pc = "prologue"
  /\ idx = 1
  /\ low_longadd = 0
  /\ high_longadd = Ceiling
  /\ longadd = (0 + Ceiling) \div 2
  /\ short_add = 0
  /\ err = "nil"
  /\ rsp = ZeroBuffer
  /\ faulty \in BOOLEAN
  /\ exitCause = "none"
  /\ devs \in DeviceSets(MaxDevices)
  /\ search = <<>>
  /\ withdrawn = {}
  /\ shortOf = [d \in devs |-> NoShort]
  /\ sent = <<>>
  /\ iters = 0
  /\ passes = 0
  /\ progLog = <<>>
  /\ CallIdle
  /\ ScanIdle
  /\ bound = {}
  /\ anyAnswer = FALSE
  /\ rd = NoRead

Next ==
  \/ Prologue
  \/ OuterLoop
  \/ InnerLoop
  \/ SetSearchAddress
  \/ Compare
  \/ WaitResponse
  \/ Classify
  \/ Sentinel
  \/ Assign
  \/ Increment
  \/ Terminate
  \/ BroadcastOn

Spec == Init /\ [][Next]_vars

(***************************************************************************)
(* Scan_addresses (src/dali.go:232-277).  response is the returned slice,  *)
(* a sequence whose element i + 1 is response[i] of the source.            *)
(***************************************************************************)
SCAN_QUERY == 161

ScanCount == 64

\* simulated bus: the tokens that bound devices answer to
BoundTokens == bound \cup ({shortOf[d] : d \in devs} \ {NoShort})

\* simulated bus: a bound device answers a query addressed to its token
ScanAnswers ==
  IF LastFrame[1] = "frame" /\ LastFrame[3] = SCAN_QUERY /\ LastFrame[2] \in BoundTokens
  THEN AnswerBuffers
  ELSE {IdleBuffer}

ScanReadResults ==
  {[n |-> ResponseLen, data |-> b, err |-> "nil"] : b \in ScanAnswers}
    \cup (IF faulty THEN {[n |-> 0, data |-> ZeroBuffer, err |-> "timeout"]} ELSE {})

scanRest == << commVars, rsp, faulty, devs, iters, passes, callVars, envVars >>

\* lines 241-243: broadcast off
ScanBroadcastOff ==
  /\ pc = "scan_off"
  /\ IssueThen(BROADCAST_C, OFF_C, TRUE, "scan_loop", 1)
  /\ UNCHANGED << scanRest, scanVars >>

\* line 245: the loop test
ScanLoop ==
  /\ pc = "scan_loop"
  /\ pc' = IF device_short_add < ScanCount THEN "scan_query" ELSE "scan_on"
  /\ UNCHANGED << idx, err, exitCause, busVars, sent, progLog, scanRest, scanVars >>

\* lines 248-251: the query to address_byte = 1 + (device_short_add << 1)
ScanQuery ==
  /\ pc = "scan_query"
  /\ IssueThen(AddressToken(device_short_add), SCAN_QUERY, TRUE, "scan_wait", 1)
  /\ UNCHANGED << scanRest, scanVars >>

\* line 253: the read
ScanWait ==
  /\ pc = "scan_wait"
  /\ \E r \in ScanReadResults :
       LET w == Wait_dali_response(r)
       IN IF w.exit
          THEN /\ pc' = "exited"
               /\ exitCause' = "read"
               /\ UNCHANGED << rsp, err, sent >>
          ELSE /\ pc' = "scan_classify"
               /\ rsp' = w.response
               /\ err' = w.err
               /\ sent' = Append(sent, ReadEv)
               /\ UNCHANGED exitCause
  /\ UNCHANGED << idx, commVars, faulty, devs, busVars, iters, passes, progLog,
                  callVars, envVars, scanVars >>

\* lines 255-257 and the loop step: an address that did not answer is passed over
ScanClassify ==
  /\ pc = "scan_classify"
  /\ IF ScanResponded(rsp)
     THEN pc' = "scan_toggle" /\ UNCHANGED device_short_add
     ELSE pc' = "scan_loop" /\ device_short_add' = (device_short_add + 1) % 256
  /\ UNCHANGED << idx, err, exitCause, busVars, sent, progLog, scanRest,
                  short_addresses, response >>

\* ScanToggle sending on twice instead of on, then off
ScanToggle_m ==
  /\ pc = "scan_toggle"
  /\ IssueThen(AddressToken(device_short_add), ON_C, TRUE,
               IF idx = 2 THEN "scan_record" ELSE "scan_toggle",
               IF idx = 2 THEN 1 ELSE idx + 1)
  /\ UNCHANGED << scanRest, scanVars >>

\* lines 260-263: on, then off, to the address that answered
ScanToggle ==
  /\ pc = "scan_toggle"
  /\ IssueThen(AddressToken(device_short_add), IF idx = 1 THEN ON_C ELSE OFF_C, TRUE,
               IF idx = 2 THEN "scan_record" ELSE "scan_toggle",
               IF idx = 2 THEN 1 ELSE idx + 1)
  /\ UNCHANGED << scanRest, scanVars >>

\* lines 265-267 and the loop step: store address_byte, count it, grow the slice
ScanRecord ==
  /\ pc = "scan_record"
  /\ response' = Append([response EXCEPT ![short_addresses + 1] =
                                           AddressToken(device_short_add)], 0)
  /\ short_addresses' = (short_addresses + 1) % 256
  /\ device_short_add' = (device_short_add + 1) % 256
  /\ pc' = "scan_loop"
  /\ UNCHANGED << idx, err, exitCause, busVars, sent, progLog, scanRest >>

\* lines 272-276: broadcast on, then return response, err
ScanBroadcastOn ==
  /\ pc = "scan_on"
  /\ IssueThen(BROADCAST_C, ON_C, TRUE, "scan_done", 1)
  /\ UNCHANGED << scanRest, scanVars >>

NextScan ==
  \/ ScanBroadcastOff
  \/ ScanLoop
  \/ ScanQuery
  \/ ScanWait
  \/ ScanClassify
  \/ ScanToggle
  \/ ScanRecord
  \/ ScanBroadcastOn

\* short addresses bound on the bus before a scan
ScanShortSamples == {0, 3, 7, 63}

\* Scan_addresses called on a bus with some short addresses bound
InitScan ==
  /\ pc = "scan_off"
  /\ idx = 1
  /\ low_longadd = 0
  /\ high_longadd = Ceiling
  /\ longadd = (0 + Ceiling) \div 2
  /\ short_add = 0
  /\ err = "nil"
  /\ rsp = ZeroBuffer
  /\ faulty \in BOOLEAN
  /\ exitCause = "none"
  /\ devs = {}
  /\ search = <<>>
  /\ withdrawn = {}
  /\ shortOf = [d \in {} |-> NoShort]
  /\ sent = <<>>
  /\ iters = 0
  /\ passes = 0
  /\ progLog = <<>>
  /\ CallIdle
  /\ ScanIdle
  /\ bound \in {{AddressToken(k) : k \in S} : S \in SUBSET ScanShortSamples}
  /\ anyAnswer = FALSE
  /\ rd = NoRead

SpecScan == InitScan /\ [][NextScan]_vars

\* the host calls Scan_addresses after Initialize_dali has returned
StartScan ==
  /\ pc = "done"
  /\ pc' = "scan_off"
  /\ sent' = <<>>
  /\ device_short_add' = 0
  /\ short_addresses' = 0
  /\ response' = <<0>>
  /\ UNCHANGED << idx, err, exitCause, busVars, progLog, scanRest >>

NextFull == Next \/ StartScan \/ NextScan

\* simulated bus: what may be bound on the bus before the commissioning run
FullBound == {{}, {AddressToken(3)}}

\* a commissioning run on a bus that may hold a device bound beforehand
InitFull ==
  /\ pc = "prologue"
  /\ idx = 1
  /\ low_longadd = 0
  /\ high_longadd = Ceiling
  /\ longadd = (0 + Ceiling) \div 2
  /\ short_add = 0
  /\ err = "nil"
  /\ rsp = ZeroBuffer
  /\ faulty \in BOOLEAN
  /\ exitCause = "none"
  /\ devs \in DeviceSets(MaxDevices)
  /\ search = <<>>
  /\ withdrawn = {}
  /\ shortOf = [d \in devs |-> NoShort]
  /\ sent = <<>>
  /\ iters = 0
  /\ passes = 0
  /\ progLog = <<>>
  /\ CallIdle
  /\ ScanIdle
  /\ bound \in FullBound
  /\ anyAnswer = FALSE
  /\ rd = NoRead

\* a commissioning run followed by a scan of the same bus
SpecFull == InitFull /\ [][NextFull]_vars

\* a commissioning run in which every read may return either classification
InitAny ==
  /\ pc = "prologue"
  /\ idx = 1
  /\ low_longadd = 0
  /\ high_longadd = Ceiling
  /\ longadd = (0 + Ceiling) \div 2
  /\ short_add = 0
  /\ err = "nil"
  /\ rsp = ZeroBuffer
  /\ faulty = FALSE
  /\ exitCause = "none"
  /\ devs = {}
  /\ search = <<>>
  /\ withdrawn = {}
  /\ shortOf = [d \in {} |-> NoShort]
  /\ sent = <<>>
  /\ iters = 0
  /\ passes = 0
  /\ progLog = <<>>
  /\ CallIdle
  /\ ScanIdle
  /\ bound = {}
  /\ anyAnswer = TRUE
  /\ rd = NoRead

SpecAny == InitAny /\ [][Next]_vars

\* the program is one sequential process: it always takes its next step
FairSpecAny == SpecAny /\ WF_vars(Next)

(***************************************************************************)
(* Stand-alone calls of the pure functions and of the issuer.              *)
(***************************************************************************)
CommIdle ==
  /\ idx = 1
  /\ low_longadd = 0
  /\ high_longadd = Ceiling
  /\ longadd = (0 + Ceiling) \div 2
  /\ short_add = 0
  /\ err = "nil"
  /\ faulty = FALSE
  /\ exitCause = "none"
  /\ devs = {}
  /\ search = <<>>
  /\ withdrawn = {}
  /\ shortOf = [d \in {} |-> NoShort]
  /\ sent = <<>>
  /\ iters = 0
  /\ passes = 0
  /\ progLog = <<>>
  /\ ScanIdle
  /\ bound = {}
  /\ anyAnswer = FALSE
  /\ rd = NoRead

commAll == << idx, commVars, err, faulty, devs, busVars, sent, iters, passes, progLog >>

\* create_dali_frame called with every (address, command) pair
InitCodec ==
  /\ pc = "encode"
  /\ CommIdle
  /\ rsp = ZeroBuffer
  /\ dali_address \in Byte
  /\ dali_command \in Byte
  /\ message = ZeroFrame
  /\ wr = OkWrite
  /\ ret = "none"
  /\ scan_class = "none"
  /\ comm_class = "none"

Encode ==
  /\ pc = "encode"
  /\ message' = create_dali_frame(dali_address, dali_command)
  /\ pc' = "encoded"
  /\ UNCHANGED << commAll, scanVars, envVars, exitCause, rsp, dali_address, dali_command, wr, ret,
                  scan_class, comm_class >>

NextCodec == Encode

SpecCodec == InitCodec /\ [][NextCodec]_vars

\* the outcomes port.Write can report for a frame of FrameLen bytes
WriteOutcomes ==
  {[n |-> k, err |-> "nil"] : k \in 0..FrameLen}
    \cup {[n |-> k, err |-> "EIO"] : k \in 0..(FrameLen - 1)}

CommandSamples == {OFF_C, ON_C, RESET, QUERY_STATUS, TERMINATE}

\* Issue_dali_request called once, under every outcome of the write
InitIssue ==
  /\ pc = "issue"
  /\ CommIdle
  /\ rsp = ZeroBuffer
  /\ dali_address \in ByteSamples
  /\ dali_command \in CommandSamples
  /\ message = ZeroFrame
  /\ wr \in WriteOutcomes
  /\ ret = "none"
  /\ scan_class = "none"
  /\ comm_class = "none"

IssueCall ==
  /\ pc = "issue"
  /\ LET r == Issue_dali_request(dali_address, dali_command, wr)
     IN IF r.exit
        THEN pc' = "exited" /\ exitCause' = "write" /\ UNCHANGED ret
        ELSE pc' = "returned" /\ ret' = r.err /\ UNCHANGED exitCause
  /\ message' = create_dali_frame(dali_address, dali_command)
  /\ UNCHANGED << commAll, scanVars, envVars, rsp, dali_address, dali_command, wr, scan_class, comm_class >>

NextIssue == IssueCall

SpecIssue == InitIssue /\ [][NextIssue]_vars

\* the two classifications applied to one response buffer
InitClassify ==
  /\ pc = "classify_buffer"
  /\ CommIdle
  /\ rsp \in BufferSamples
  /\ CallIdle

ClassifyBuffer ==
  /\ pc = "classify_buffer"
  /\ scan_class' = IF ScanResponded(rsp) THEN "Responded" ELSE "NoResponse"
  /\ comm_class' = IF CommResponded(rsp) THEN "Responded" ELSE "NoResponse"
  /\ pc' = "classified"
  /\ UNCHANGED << commAll, scanVars, envVars, exitCause, rsp, dali_address, dali_command, message, wr, ret >>

NextClassify == ClassifyBuffer

SpecClassify == InitClassify /\ [][NextClassify]_vars

\* the outcomes port.Read can report for a buffer of ResponseLen bytes
ReadOutcomes ==
  {[n |-> k, data |-> b, err |-> "nil"] : k \in 0..ResponseLen, b \in BufferSamples}
    \cup {[n |-> k, data |-> b, err |-> "timeout"] :
             k \in 0..(ResponseLen - 1), b \in {IdleBuffer, ZeroBuffer}}

\* Wait_dali_response called once, its buffer then classified by both callers
InitRead ==
  /\ pc = "read"
  /\ idx = 1
  /\ low_longadd = 0
  /\ high_longadd = Ceiling
  /\ longadd = (0 + Ceiling) \div 2
  /\ short_add = 0
  /\ err = "nil"
  /\ rsp = ZeroBuffer
  /\ faulty = FALSE
  /\ exitCause = "none"
  /\ devs = {}
  /\ search = <<>>
  /\ withdrawn = {}
  /\ shortOf = [d \in {} |-> NoShort]
  /\ sent = <<>>
  /\ iters = 0
  /\ passes = 0
  /\ progLog = <<>>
  /\ CallIdle
  /\ ScanIdle
  /\ bound = {}
  /\ anyAnswer = FALSE
  /\ rd \in ReadOutcomes

WaitCall ==
  /\ pc = "read"
  /\ LET w == Wait_dali_response(rd)
     IN IF w.exit
        THEN /\ pc' = "exited"
             /\ exitCause' = "read"
             /\ UNCHANGED << rsp, ret, scan_class, comm_class >>
        ELSE /\ pc' = "read_done"
             /\ rsp' = w.response
             /\ ret' = w.err
             /\ scan_class' = IF ScanResponded(w.response) THEN "Responded" ELSE "NoResponse"
             /\ comm_class' = IF CommResponded(w.response) THEN "Responded" ELSE "NoResponse"
             /\ UNCHANGED exitCause
  /\ UNCHANGED << commAll, scanVars, envVars, dali_address, dali_command, message, wr >>

NextRead == WaitCall

SpecRead == InitRead /\ [][NextRead]_vars

(***************************************************************************)
(* Properties                                                              *)
(***************************************************************************)
Min(S) == CHOOSE x \in S : \A y \in S : x <= y

\* the short address a token 0AAAAAA1 carries
ShortOfToken(t) == (t - 1) \div 2

\* C1: after a complete run on a fault-free bus of N devices, exactly N
\* program-short-address commands were issued, they carry the short addresses
\* 0..N-1, each is received by a different single device, and no two devices
\* hold the same short address.
C1_AllDevicesAddressed ==
  (pc = "done" /\ ~faulty) =>
     LET N == Cardinality(devs)
     IN /\ Len(progLog) = N
        /\ {progLog[i].token : i \in 1..Len(progLog)} = {AddressToken(k) : k \in 0..(N - 1)}
        /\ \A i \in 1..Len(progLog) : Cardinality(progLog[i].to) = 1
        /\ \A i, j \in 1..Len(progLog) : i # j => progLog[i].to # progLog[j].to
        /\ \A d \in devs : shortOf[d] # NoShort
        /\ \A d, e \in devs : d # e => shortOf[d] # shortOf[e]

\* C2: with no device on the bus the first discovery pass ends with high at
\* the sentinel ceiling, no program-short-address command is ever issued, the
\* assigned count stays 0, and the run ends with broadcast on and no error.
C2_EmptyBusAssignsNothing ==
  (devs = {} /\ ~faulty) =>
     /\ (pc = "sentinel" /\ passes = 0) => high_longadd = Ceiling
     /\ progLog = <<>>
     /\ short_add = 0
     /\ pc = "done" => (LastFrame = Frame(BROADCAST_C, ON_C) /\ err = "nil")

\* C3: every discovery pass that assigns isolates the lowest long address
\* among the devices not yet withdrawn; with two devices at 1 and Ceiling-1
\* the run programs exactly these two, the lower one with short address 0 and
\* the higher one with short address 1.
C3_LowestRemainingFirst ==
  ~faulty =>
     /\ (pc = "assign" /\ idx = 1) =>
           (Remaining # {} /\ longadd + 1 = Min(Remaining))
     /\ (pc = "done" /\ devs = {1, Ceiling - 1}) =>
           progLog = << [token |-> AddressToken(0), addr |-> 1, to |-> {1}],
                        [token |-> AddressToken(1), addr |-> Ceiling - 1,
                         to |-> {Ceiling - 1}] >>

\* C4: with a single device at T the first inner search stops after at most
\* AddrBits compare iterations (24 in the program) with high - low = 1 and
\* low + 1 = T; for T = 1 it stops at low = 0, high = 1 and the device gets
\* short address 0.
C4_SearchConvergesOnTarget ==
  (~faulty /\ Cardinality(devs) = 1) =>
     /\ (pc = "sentinel" /\ passes = 0) =>
           /\ iters <= AddrBits
           /\ high_longadd - low_longadd = 1
           /\ devs = {low_longadd + 1}
     /\ (pc = "sentinel" /\ passes = 0 /\ devs = {1}) =>
           (low_longadd = 0 /\ high_longadd = 1)
     /\ (pc = "done" /\ devs = {1}) => shortOf[1] = AddressToken(0)

\* C5: at most 64 program-short-address commands are issued in a run, the
\* discovery loop body runs at most 64 times, and every short address
\* programmed lies in 0..63.
C5_AtMostSixtyFour ==
  /\ Len(progLog) <= MaxShort
  /\ passes <= MaxShort
  /\ \A i \in 1..Len(progLog) :
        /\ progLog[i].token = 1 + 2 * ShortOfToken(progLog[i].token)
        /\ ShortOfToken(progLog[i].token) \in 0..63

\* C6: a failed or timed-out read of a backward frame never ends the
\* process: the probe counts as NoResponse and the operation goes on.
C6_ReadFailureIsNoResponse ==
  ~(pc = "exited" /\ exitCause = "read")

\* C7: Issue_dali_request returns to its caller, with an error exactly when
\* the write failed or wrote fewer bytes than the frame has; a write fault
\* never ends the process.
C7_WriteFaultReturned ==
  (pc \in {"returned", "exited"}) =>
     /\ pc = "returned"
     /\ (ret # "nil") <=> (wr.err # "nil" \/ wr.n < FrameLen)

\* the physical bits of a frame, most significant bit of byte 0 first
PhysicalBits(m) == [p \in 1..(8 * FrameLen) |-> BitOf(m[(p - 1) \div 8], 7 - ((p - 1) % 8))]

\* the 16 logical bits of (address, command), most significant bit first
LogicalBits(a, c) == [q \in 1..16 |-> IF q <= 8 THEN BitOf(a, 8 - q) ELSE BitOf(c, 16 - q)]

\* C8: the frame is the start symbol followed by the 8 address bits and the
\* 8 command bits, most significant first, a logical 1 written as the pair
\* high-low and a logical 0 as the pair low-high; two different pairs never
\* give the same frame.
C8_BiphaseFrame ==
  (pc = "encoded") =>
     /\ PhysicalBits(message)[1] = 0 /\ PhysicalBits(message)[2] = 1
     /\ \A q \in 1..16 :
           << PhysicalBits(message)[2 * q + 1], PhysicalBits(message)[2 * q + 2] >>
             = (IF LogicalBits(dali_address, dali_command)[q] = 1 THEN <<1, 0>> ELSE <<0, 1>>)
     /\ \A a \in ByteSamples, c \in CommandSamples :
           create_dali_frame(a, c) = message => (a = dali_address /\ c = dali_command)

\* C9: every frame has FrameLen (5) bytes and the start symbol at the same
\* place: bit 6 of byte 0 set and bit 7 clear.
C9_FrameShapeConstant ==
  (pc = "encoded") =>
     /\ DOMAIN message = 0..(FrameLen - 1)
     /\ Cardinality(DOMAIN message) = 5
     /\ \A k \in DOMAIN message : message[k] \in Byte
     /\ BitOf(message[0], 6) = 1
     /\ BitOf(message[0], 7) = 0

C9_Witness ==
  /\ pc = "encoded"
  /\ dali_address = BROADCAST_C
  /\ dali_command = ON_C
  /\ BitOf(message[0], 6) = 1

\* C10: a response buffer is classified NoResponse exactly when its three
\* bytes are all 0xFF and Responded when at least one of its bits is 0, and
\* the scanner and the commissioner classify every buffer alike.
C10_ClassifyByIdle ==
  (pc = "classified") =>
     LET allIdle == \A k \in 0..(ResponseLen - 1) : rsp[k] = 255
         someLow == \E k \in 0..(ResponseLen - 1) : \E i \in 0..7 : BitOf(rsp[k], i) = 0
     IN /\ (scan_class = "NoResponse") <=> allIdle
        /\ someLow => scan_class = "Responded"
        /\ scan_class \in {"NoResponse", "Responded"}
        /\ comm_class = scan_class

C10_Witness ==
  /\ pc = "classified"
  /\ rsp = [k \in 0..(ResponseLen - 1) |-> IF k = 2 THEN 254 ELSE 255]
  /\ comm_class = "Responded"
  /\ scan_class = "Responded"

IsFrame(e) == e[1] = "frame"

NotSleep(e) == e[1] # "sleep"

FramesOf(seq) == SelectSeq(seq, IsFrame)

\* the events of seq after its last read
AfterLastRead(seq) ==
  LET R == {i \in 1..Len(seq) : seq[i] = ReadEv}
      last == IF R = {} THEN 0 ELSE CHOOSE i \in R : \A j \in R : j <= i
  IN SubSeq(seq, last + 1, Len(seq))

Elements(seq) == {seq[i] : i \in 1..Len(seq)}

\* C11: Scan_addresses returns exactly the short addresses (0..63) whose
\* probe answered and nothing else: {3, 7} when exactly these two are bound,
\* the empty collection when nothing answers.
C11_ScanReturnsBoundShorts ==
  (pc = "scan_done") =>
     /\ Elements(response) = {ShortOfToken(t) : t \in bound}
     /\ Len(response) = Cardinality(bound)
     /\ bound = {} => response = <<>>
     /\ bound = {AddressToken(3), AddressToken(7)} => Elements(response) = {3, 7}

\* C12: on a bus with nothing bound beforehand, a scan after a commissioning
\* run names exactly the short addresses the run bound to devices; every
\* token the run programmed is a token the scan probes.
C12_ScanMatchesCommission ==
  (pc = "scan_done" /\ bound = {}) =>
     /\ \A i \in 1..Len(progLog) :
           progLog[i].token \in {AddressToken(k) : k \in 0..(ScanCount - 1)}
     /\ Elements(response) = {ShortOfToken(shortOf[d]) : d \in {e \in devs : shortOf[e] # NoShort}}

LastTwoFrames ==
  LET F == FramesOf(sent)
  IN IF Len(F) < 2 THEN <<>> ELSE SubSeq(F, Len(F) - 1, Len(F))

\* C13: without transport faults every commissioning run ends, whatever the
\* reads return: no inner search takes more than AddrBits compare iterations
\* (24 in the program), and the run ends having sent terminate and then
\* broadcast on as its last two frames.
C13_RunTerminates ==
  /\ [](iters <= AddrBits)
  /\ [](pc = "done" => LastTwoFrames = << Frame(TERMINATE, 0), Frame(BROADCAST_C, ON_C) >>)
  /\ <>(pc = "done")

C13_Witness ==
  /\ pc = "done"
  /\ passes = 3
  /\ short_add = 2
  /\ LastTwoFrames = << Frame(TERMINATE, 0), Frame(BROADCAST_C, ON_C) >>

\* the frames and reads of a scan of a bus whose bound tokens are hits
RECURSIVE ExpectedProbes(_, _)
ExpectedProbes(k, hits) ==
  IF k = ScanCount THEN <<>>
  ELSE LET t == 1 + 2 * k
       IN << Frame(t, SCAN_QUERY), ReadEv >>
            \o (IF t \in hits THEN << Frame(t, ON_C), Frame(t, OFF_C) >> ELSE <<>>)
            \o ExpectedProbes(k + 1, hits)

\* C14: one scan sends broadcast off, then for each short address 0..63 in
\* ascending order a query followed by one read, followed by on and off to
\* that address exactly when it answered, and broadcast on last.
C14_ScanFrameSequence ==
  /\ (pc = "scan_done") =>
        SelectSeq(sent, NotSleep)
          = << Frame(BROADCAST_C, OFF_C) >> \o ExpectedProbes(0, bound)
               \o << Frame(BROADCAST_C, ON_C) >>
  /\ (pc = "scan_toggle") => ScanResponded(rsp)

C14_Witness ==
  /\ pc = "scan_done"
  /\ bound = {AddressToken(3), AddressToken(7)}
  /\ \E i \in 1..Len(sent) : sent[i] = Frame(AddressToken(7), ON_C)
  /\ Len(SelectSeq(sent, IsFrame)) = 2 + ScanCount + 4

\* C15: between any two consecutive frames written there is a bus-settling
\* delay, and every inner-search iteration performs four delays.
C15_DelayAfterEveryFrame ==
  /\ \A i, j \in 1..Len(sent) :
        (i < j /\ IsFrame(sent[i]) /\ IsFrame(sent[j]))
           => \E k \in (i + 1)..(j - 1) : sent[k] = Sleep
  /\ (pc = "classify") =>
        Cardinality({i \in 1..Len(sent) : sent[i] = Sleep}) = 4 * (iters + 1)

\* C16: 0 <= low < high <= ceiling always, and low < candidate < high while
\* an iteration is under way; an iteration shrinks high - low and moves
\* exactly one bound to the candidate; low never decreases; high grows only
\* when it is reloaded with the ceiling after an assignment.
C16_WindowNarrows ==
  /\ [](/\ 0 <= low_longadd
        /\ low_longadd < high_longadd
        /\ high_longadd <= Ceiling
        /\ (pc \in {"search", "compare", "wait", "classify"}) =>
              (low_longadd < longadd /\ longadd < high_longadd))
  /\ [][(pc = "classify") =>
           /\ high_longadd' - low_longadd' < high_longadd - low_longadd
           /\ \/ (low_longadd' = longadd /\ high_longadd' = high_longadd)
              \/ (high_longadd' = longadd /\ low_longadd' = low_longadd)]_vars
  /\ [][low_longadd' >= low_longadd]_vars
  /\ [][(high_longadd' > high_longadd) =>
           (pc = "increment" /\ high_longadd' = Ceiling)]_vars

C16_Witness ==
  /\ pc = "classify"
  /\ short_add = 2
  /\ low_longadd > 1
  /\ high_longadd < Ceiling

\* the pass just completed ended at the sentinel: nothing was programmed in it
SentinelEnded ==
  /\ pc = "outer"
  /\ passes > 0
  /\ \A i \in 1..Len(sent) : sent[i][2] # PROGRAM_SHORT

\* C17: a pass that converges with high at the ceiling sends nothing more
\* (no search address, no program, no withdraw), leaves the assigned count
\* alone and is the last pass: the loop exits and the next frame is terminate.
C17_SentinelPassIsLast ==
  /\ [][(pc = "sentinel" /\ high_longadd = Ceiling) =>
           (pc' = "outer" /\ sent' = sent /\ progLog' = progLog
              /\ short_add' = short_add)]_vars
  /\ [][SentinelEnded => (pc' = "terminate" /\ sent' = sent
                            /\ short_add' = short_add)]_vars
  /\ [][(pc = "terminate") => sent' = sent \o << Frame(TERMINATE, 0), Sleep >>]_vars

C17_Witness ==
  /\ pc = "terminate"
  /\ short_add = 2
  /\ passes = 3
  /\ high_longadd = Ceiling
  /\ \A i \in 1..Len(sent) : sent[i][2] # PROGRAM_SHORT

\* C18: when a pass converges below the ceiling the frames sent after the
\* last read are, in order, the high, middle and low byte of low + 1 (the
\* converged high), program-short-address with the token 1 + 2k for k
\* devices assigned so far, withdraw, on and off to that token; the count
\* is incremented only after them; the tokens of a run are pairwise distinct.
C18_AssignSequence ==
  /\ [](pc = "increment" =>
          LET F == FramesOf(AfterLastRead(sent))
              t == 1 + 2 * short_add
          IN /\ Len(F) = 7
             /\ F[1][2] = SEARCHADDR /\ F[2][2] = SEARCHADDR /\ F[3][2] = SEARCHADDR
             /\ F[1][3] * 65536 + F[2][3] * 256 + F[3][3] = low_longadd + 1
             /\ low_longadd + 1 = high_longadd
             /\ F[4] = Frame(PROGRAM_SHORT, t)
             /\ F[5] = Frame(WITHDRAW, 0)
             /\ F[6] = Frame(t, ON_C)
             /\ F[7] = Frame(t, OFF_C)
             /\ Len(progLog) = short_add + 1
             /\ progLog[Len(progLog)].token = t)
  /\ [](\A i, j \in 1..Len(progLog) : i # j => progLog[i].token # progLog[j].token)
  /\ [][(pc = "assign") => short_add' = short_add]_vars
  /\ [][(pc = "increment") => short_add' = short_add + 1]_vars

C18_Witness ==
  /\ pc = "increment"
  /\ short_add = 1
  /\ low_longadd > 0
  /\ Len(progLog) = 2

\* C19: no long address is selected and programmed twice in a run: the
\* addresses programmed are strictly increasing.
C19_NoAddressTwice ==
  \A i, j \in 1..Len(progLog) : i < j => progLog[i].addr < progLog[j].addr

\* C20: when the read returns without error having delivered fewer than 3
\* bytes, the bytes not delivered are 0x00 in the buffer handed to the
\* caller, the delivered ones are as read, and both the scanner and the
\* commissioner classify the probe Responded.
C20_ShortReadResponds ==
  (pc = "read_done" /\ rd.n < ResponseLen) =>
     /\ \A k \in 0..(ResponseLen - 1) : k >= rd.n => rsp[k] = 0
     /\ \A k \in 0..(ResponseLen - 1) : k < rd.n => rsp[k] = rd.data[k]
     /\ scan_class = "Responded"
     /\ comm_class = "Responded"

C20_Witness ==
  /\ pc = "read_done"
  /\ rd.n = 2
  /\ rd.data = IdleBuffer
  /\ rsp[2] = 0
  /\ comm_class = "Responded"

====
